---- MODULE Spec2Model ----
(***************************************************************************)
(* A model of the Nelder-Mead optimizer of crhntr/neldermead: Run and the  *)
(* functions it calls (validate, validateX0, createSimplex, runIteration,  *)
(* sortSimplex, computeCentroid, reflect, shrinkSimplex, isCollapsed,      *)
(* ensureXAreInConstraintBounds).                                          *)
(*                                                                         *)
(* Numbers.  A float64 is modelled as an integer in fixed point, or as     *)
(* one of three special values NaN, PosInf, NegInf.  Coordinates, bounds   *)
(* and CollapseThreshold count in steps of 1/Unit; objective values and    *)
(* Tolerance count in steps of 1/FUnit, FUnit = Unit*Unit.  A product or   *)
(* a quotient is rounded to the nearest step, ties to even, as float64     *)
(* rounds to the nearest representable number: one step of the model       *)
(* stands for one unit in the last place.  With integer guesses and        *)
(* bounds, dimension at most 2 and the coefficients 1, 2 and 1/2, one      *)
(* iteration divides by at most 4, and with Unit = 4^IterBound every       *)
(* division of such a run is exact; the runs of NarrowInputs, and of the   *)
(* boxes with a bound between two integers, are the ones that round.       *)
(*                                                                         *)
(* Storage.  Next to the simplex as a sequence of values, the model keeps  *)
(* the arrays Run reads and writes (heap) and, for each vertex, the slice  *)
(* that holds its coordinates (points): the caller's x0 and Constraints,   *)
(* the arrays createSimplex makes, and pointBuf with its four slices.      *)
(***************************************************************************)
EXTENDS Integers, Sequences, FiniteSets, TLC

\* ------------------------------------------------------------------ bounds

\* the largest MaxIterations a valid run of the model is given
IterBound == 2

\* the initial guess has coordinates 0 .. MaxCoord (and NaN)
MaxCoord == 2

RECURSIVE Pow4(_)
Pow4(k) == IF k = 0 THEN 1 ELSE 4 * Pow4(k - 1)

Unit == Pow4(IterBound)
FUnit == Unit * Unit

\* ------------------------------------------------------------- float64

\* math.NaN(), math.Inf(1), math.Inf(-1)
NaN == 0 - 2000000001
PosInf == 0 - 2000000002
NegInf == 0 - 2000000003

IsNaN(a) == a = NaN
IsInf(a) == a = PosInf \/ a = NegInf

\* a + b, a - b; no operand is infinite in a run of the model
FAdd(a, b) == IF IsNaN(a) \/ IsNaN(b) THEN NaN ELSE a + b
FSub(a, b) == IF IsNaN(a) \/ IsNaN(b) THEN NaN ELSE a - b

\* a < b, a > b: false when an operand is NaN
FLt(a, b) == ~IsNaN(a) /\ ~IsNaN(b) /\ a < b
FGt(a, b) == ~IsNaN(a) /\ ~IsNaN(b) /\ a > b

\* math.Abs
FAbs(a) == IF IsNaN(a) THEN NaN ELSE IF a < 0 THEN 0 - a ELSE a

\* n / d for d > 0, rounded as float64 rounds a result that lies between
\* two neighbours of its grid: to the nearest one, a tie to the even one
RoundDiv(n, d) ==
  LET q == n \div d
      r == n % d
  IN  IF 2 * r < d THEN q
      ELSE IF 2 * r > d THEN q + 1
      ELSE IF q % 2 = 0 THEN q ELSE q + 1

\* a + k * b for a coefficient k = <<numerator, denominator>>: the product
\* is exact and the sum is rounded
FMulAdd(a, k, b) ==
  IF IsNaN(a) \/ IsNaN(b) THEN NaN
  ELSE RoundDiv(a * k[2] + k[1] * b, k[2])

\* a / m for a count m
FDivN(a, m) == IF IsNaN(a) THEN NaN ELSE RoundDiv(a, m)

\* cmp.Compare: NaN is less than every number and equal to NaN
Compare(a, b) ==
  IF IsNaN(a) THEN (IF IsNaN(b) THEN 0 ELSE 0 - 1)
  ELSE IF IsNaN(b) THEN 1
  ELSE IF a < b THEN 0 - 1
  ELSE IF a > b THEN 1
  ELSE 0

\* the comparison of a coefficient <<num, den>> (den > 0) with 0 and with 1
KLeZero(k) == k[1] <= 0
KLeOne(k) == k[1] <= k[2]
KGeOne(k) == k[1] >= k[2]

\* ------------------------------------------------------------ data model

\* Point{}: the zero Point
EmptyPoint == [X |-> <<>>, F |-> 0]

NewPoint(x, fv) == [X |-> x, F |-> fv]

\* DefaultAlpha .. DefaultDelta
DefaultAlpha == <<1, 1>>
DefaultBeta == <<1, 2>>
DefaultGamma == <<2, 1>>
DefaultDelta == <<1, 2>>

\* ------------------------------------------------------------ validation

\* Constraint.validate without its last test: equal bounds accepted
ConstraintInvalid_AllowEqual(c) ==
  IF IsNaN(c.Min) \/ IsNaN(c.Max) THEN TRUE
  ELSE IF IsInf(c.Min) \/ IsInf(c.Max) THEN TRUE
  ELSE IF c.Max < c.Min THEN TRUE
  ELSE FALSE

\* Constraint.validate: TRUE when it returns an error
ConstraintInvalid(c) ==
  IF IsNaN(c.Min) \/ IsNaN(c.Max) THEN TRUE
  ELSE IF IsInf(c.Min) \/ IsInf(c.Max) THEN TRUE
  ELSE IF c.Max < c.Min THEN TRUE
  ELSE IF c.Min = c.Max THEN TRUE
  ELSE FALSE

\* Options.validate with "Beta > 1" for "Beta >= 1"
OptionsInvalid_BetaOne(o) ==
  IF KLeZero(o.Alpha) THEN TRUE
  ELSE IF KLeZero(o.Beta) \/ (KGeOne(o.Beta) /\ ~KLeOne(o.Beta)) THEN TRUE
  ELSE IF KLeOne(o.Gamma) THEN TRUE
  ELSE IF KLeZero(o.Delta) \/ KGeOne(o.Delta) THEN TRUE
  ELSE IF o.Tolerance <= 0 THEN TRUE
  ELSE IF o.MaxIterations <= 0 THEN TRUE
  ELSE \E i \in 1..Len(o.Constraints) : ConstraintInvalid(o.Constraints[i])

\* Options.validate: TRUE when it returns an error
OptionsInvalid(o) ==
  IF KLeZero(o.Alpha) THEN TRUE
  ELSE IF KLeZero(o.Beta) \/ KGeOne(o.Beta) THEN TRUE
  ELSE IF KLeOne(o.Gamma) THEN TRUE
  ELSE IF KLeZero(o.Delta) \/ KGeOne(o.Delta) THEN TRUE
  ELSE IF o.Tolerance <= 0 THEN TRUE
  ELSE IF o.MaxIterations <= 0 THEN TRUE
  ELSE \E i \in 1..Len(o.Constraints) : ConstraintInvalid(o.Constraints[i])

\* Options.validateX0: TRUE when it returns an error
X0Invalid(o, x) ==
  IF Len(o.Constraints) # 0 /\ Len(o.Constraints) # Len(x) THEN TRUE
  ELSE IF Len(o.Constraints) # 0
    THEN \E i \in 1..Len(x) :
           FLt(x[i], o.Constraints[i].Min) \/ FGt(x[i], o.Constraints[i].Max)
  ELSE FALSE

\* --------------------------------------------------------- the objective

\* x*(2 - x^2), rounded down to a multiple of 1/FUnit
Hump(a) == ((2 * a * Unit * Unit) - (a * a * a)) \div Unit

\* four times the fractional part of x, plus x, or -x/2 for a negative x
Saw(a) ==
  4 * Unit * (a % Unit) + Unit * (IF a >= 0 THEN a ELSE (0 - a) \div 2)

\* the objectives of the model: "diff" is x0 - x1 (x0 alone in dimension
\* 1), "sq" is the sum of the (xj - 1)^2, "cube" is x0^3 - x1 (exact for
\* the halves it is called with), "hump" and "saw" are the sums of the
\* Hump(xj) and of the Saw(xj), and "arb" is an arbitrary, not necessarily
\* repeatable objective: each call returns the value v the caller of
\* Objective draws for it
Objective(fk, x, v) ==
  IF fk = "arb" THEN v
  ELSE IF \E j \in 1..Len(x) : IsNaN(x[j]) THEN NaN
  ELSE IF fk = "diff" THEN
    Unit * (IF Len(x) = 1 THEN x[1] ELSE x[1] - x[2])
  ELSE IF fk = "cube" THEN
    ((x[1] * x[1] * x[1]) \div Unit) - Unit * x[2]
  ELSE IF fk = "hump" THEN
    IF Len(x) = 1 THEN Hump(x[1]) ELSE Hump(x[1]) + Hump(x[2])
  ELSE IF fk = "saw" THEN
    IF Len(x) = 1 THEN Saw(x[1]) ELSE Saw(x[1]) + Saw(x[2])
  ELSE
    IF Len(x) = 1 THEN (x[1] - Unit) * (x[1] - Unit)
    ELSE (x[1] - Unit) * (x[1] - Unit) + (x[2] - Unit) * (x[2] - Unit)

\* -------------------------------------------------------------- geometry

\* ensureXAreInConstraintBounds without the test against Max
Clamp_MinOnly(x, cs) ==
  [i \in 1..Len(x) |-> IF FLt(x[i], cs[i].Min) THEN cs[i].Min ELSE x[i]]

\* ensureXAreInConstraintBounds
Clamp(x, cs) ==
  [i \in 1..Len(x) |->
     LET lo == IF FLt(x[i], cs[i].Min) THEN cs[i].Min ELSE x[i]
     IN  IF FGt(lo, cs[i].Max) THEN cs[i].Max ELSE lo]

\* createSimplex with the step on coordinate i of vertex i, vertex 0 too
CreateSimplex_StepFromFirst(x, n, cs) ==
  LET raw == [i \in 1..(n + 1) |->
                [j \in 1..n |-> IF i = j THEN FAdd(x[j], Unit) ELSE x[j]]]
  IN  [i \in 1..(n + 1) |->
         NewPoint(IF Len(cs) > 0 THEN Clamp(raw[i], cs) ELSE raw[i], 0)]

\* createSimplex: the n+1 vertices, their F still zero
CreateSimplex(x, n, cs) ==
  LET raw == [i \in 1..(n + 1) |->
                [j \in 1..n |-> IF i - 1 = j THEN FAdd(x[j], Unit) ELSE x[j]]]
  IN  [i \in 1..(n + 1) |->
         NewPoint(IF Len(cs) > 0 THEN Clamp(raw[i], cs) ELSE raw[i], 0)]

\* the insertion step of slices.SortFunc on a slice of at most 12 elements:
\* p moves left past every element it compares less than
RECURSIVE InsertPoint(_, _)
InsertPoint(s, p) ==
  IF s = <<>> THEN <<p>>
  ELSE IF Compare(p.F, s[Len(s)].F) < 0
    THEN Append(InsertPoint(SubSeq(s, 1, Len(s) - 1), p), s[Len(s)])
    ELSE Append(s, p)

RECURSIVE SortPrefix(_, _)
SortPrefix(s, k) ==
  IF k = 0 THEN <<>> ELSE InsertPoint(SortPrefix(s, k - 1), s[k])

\* sortSimplex left out: the Points stay in the order they are in
SortSimplex_None(s) == s

\* sortSimplex
SortSimplex(s) == SortPrefix(s, Len(s))

RECURSIVE SumCoord(_, _, _)
SumCoord(s, k, j) ==
  IF k = 0 THEN 0 ELSE FAdd(SumCoord(s, k - 1, j), s[k].X[j])

\* computeCentroid without "if i != excludeIndex": the worst vertex is
\* summed with the others
ComputeCentroid_AllVertices(s) ==
  [j \in 1..Len(s[1].X) |-> FDivN(SumCoord(s, Len(s), j), Len(s) - 1)]

\* computeCentroid with excludeIndex the last vertex
ComputeCentroid(s) ==
  [j \in 1..Len(s[1].X) |-> FDivN(SumCoord(s, Len(s) - 1, j), Len(s) - 1)]

\* Point.reflect: the coordinates c + k*(c - p)
ReflectX(px, c, k) ==
  [j \in 1..Len(px) |-> FMulAdd(c[j], k, FSub(c[j], px[j]))]

\* shrinkSimplex with bestPoint := simplex.Points[len(simplex.Points)-1]:
\* every vertex moves toward the worst one
ShrinkSimplex_TowardWorst(s, delta) ==
  [i \in 1..Len(s) |->
     [s[i] EXCEPT !.X =
        [j \in 1..Len(s[i].X) |->
           FMulAdd(s[Len(s)].X[j], delta,
                   FSub(s[i].X[j], s[Len(s)].X[j]))]]]

\* shrinkSimplex
ShrinkSimplex(s, delta) ==
  [i \in 1..Len(s) |->
     IF i = 1 THEN s[1]
     ELSE [s[i] EXCEPT !.X =
             [j \in 1..Len(s[i].X) |->
                FMulAdd(s[1].X[j], delta, FSub(s[i].X[j], s[1].X[j]))]]]

\* Simplex.replacePoint writing to Points[0] whatever i is
ReplacePoint_First(s, i, p) == [s EXCEPT ![1] = NewPoint(p.X, p.F)]

\* Simplex.replacePoint
ReplacePoint(s, i, p) == [s EXCEPT ![i] = NewPoint(p.X, p.F)]

\* ------------------------------------------------------ collapse detection

\* the integer part of math.Sqrt
RECURSIVE ISqrt(_)
ISqrt(v) ==
  IF v < 2 THEN v
  ELSE LET r == 2 * ISqrt(v \div 4)
       IN  IF (r + 1) * (r + 1) <= v THEN r + 1 ELSE r

RECURSIVE SumSquares(_, _, _)
SumSquares(x1, x2, k) ==
  IF k = 0 THEN 0
  ELSE LET d == FSub(x1[k], x2[k])
       IN  FAdd(SumSquares(x1, x2, k - 1), IF IsNaN(d) THEN NaN ELSE d * d)

\* distance: math.Sqrt of the sum of squares lies in [lo, hi], lo = hi when
\* the root is exact
Distance(x1, x2) ==
  LET sum == SumSquares(x1, x2, Len(x1))
  IN  IF IsNaN(sum) THEN [lo |-> NaN, hi |-> NaN]
      ELSE LET r == ISqrt(sum)
           IN  [lo |-> r, hi |-> IF r * r = sum THEN r ELSE r + 1]

\* the vertex pairs i < j of averageEdgeLength, as a sequence
RECURSIVE PairsFrom(_, _, _)
PairsFrom(i, j, m) ==
  IF i >= m THEN <<>>
  ELSE IF j > m THEN PairsFrom(i + 1, i + 2, m)
  ELSE <<(<<i, j>>)>> \o PairsFrom(i, j + 1, m)

RECURSIVE TotalLength(_, _, _, _)
TotalLength(s, pairs, k, side) ==
  IF k = 0 THEN 0
  ELSE LET d == Distance(s[pairs[k][1]].X, s[pairs[k][2]].X)
       IN  FAdd(TotalLength(s, pairs, k - 1, side),
                IF side = "lo" THEN d.lo ELSE d.hi)

\* Simplex.averageEdgeLength: the total length (between lo and hi) and the
\* count it is divided by; 0/0 is NaN
AverageEdgeLength(s) ==
  LET pairs == PairsFrom(1, 2, Len(s))
  IN  [lo |-> TotalLength(s, pairs, Len(pairs), "lo"),
       hi |-> TotalLength(s, pairs, Len(pairs), "hi"),
       count |-> Len(pairs)]

\* Simplex.isCollapsed without the test for 0 and with "<=" for "<"
IsCollapsed_NoSentinel(s, threshold) ==
  LET avg == AverageEdgeLength(s)
  IN  IF avg.count = 0 \/ IsNaN(avg.lo) THEN {FALSE}
      ELSE IF avg.hi <= threshold * avg.count THEN {TRUE}
      ELSE IF avg.lo > threshold * avg.count THEN {FALSE}
      ELSE BOOLEAN

\* Simplex.isCollapsed: the values it can return.  Where the square roots
\* are not exact and the comparison falls between their bounds, either.
IsCollapsed(s, threshold) ==
  IF threshold = 0 THEN {FALSE}
  ELSE LET avg == AverageEdgeLength(s)
       IN  IF avg.count = 0 \/ IsNaN(avg.lo) THEN {FALSE}
           ELSE IF avg.hi < threshold * avg.count THEN {TRUE}
           ELSE IF avg.lo >= threshold * avg.count THEN {FALSE}
           ELSE BOOLEAN

\* ------------------------------------------------------------- iteration

\* the n+1 evaluations simplex.Points[i].F = f(simplex.Points[i].X)
Evaluate(fk, s, vals) ==
  [i \in 1..Len(s) |-> [s[i] EXCEPT !.F = Objective(fk, s[i].X, vals[i])]]

\* |Points[0].F - Points[n].F| < Tolerance
GapBelowTolerance(s, tol) ==
  FLt(FAbs(FSub(s[1].F, s[Len(s)].F)), tol)

\* the reflected point: Points[n].reflect(reflectedPoint, f, centroid, Alpha);
\* v is the value an arbitrary objective returns for it
ReflectedPoint(fk, o, s, v) ==
  LET rx == ReflectX(s[Len(s)].X, ComputeCentroid(s), o.Alpha)
  IN  NewPoint(rx, Objective(fk, rx, v))

\* the expanded point: reflectedPoint.reflect(expandedPoint, f, centroid, Gamma)
ExpandedPoint(fk, o, s, reflected, v) ==
  LET ex == ReflectX(reflected.X, ComputeCentroid(s), o.Gamma)
  IN  NewPoint(ex, Objective(fk, ex, v))

\* the contracted point of the simplex s1 that holds the current worst
\* vertex; c is the centroid computed at the start of the iteration
ContractedPoint(fk, o, s1, c, v) ==
  LET cx == ReflectX(s1[Len(s1)].X, c, o.Beta)
  IN  NewPoint(cx, Objective(fk, cx, v))

\* runIteration's transform with the contraction computed from the worst
\* vertex the iteration started with, whether or not the reflected point
\* has replaced it
Transform_ContractOldWorst(fk, o, s, ch) ==
  LET last == Len(s)
      c == ComputeCentroid(s)
      reflected == ReflectedPoint(fk, o, s, ch.r)
  IN  IF FLt(reflected.F, s[last - 1].F)
        THEN LET expanded == ExpandedPoint(fk, o, s, reflected, ch.s)
             IN  IF FLt(expanded.F, reflected.F)
                   THEN ReplacePoint(s, last, expanded)
                   ELSE ReplacePoint(s, last, reflected)
        ELSE LET s1 == IF FLt(reflected.F, s[last].F)
                         THEN ReplacePoint(s, last, reflected)
                         ELSE s
                 contracted == ContractedPoint(fk, o, s, c, ch.s)
             IN  IF FLt(contracted.F, s1[last].F)
                   THEN ReplacePoint(s1, last, contracted)
                   ELSE ShrinkSimplex(s1, o.Delta)

\* runIteration from computeCentroid to the last replacePoint or shrink;
\* ch.r and ch.s are the values an arbitrary objective returns for the
\* reflected point and for the expanded or contracted point
Transform(fk, o, s, ch) ==
  LET last == Len(s)
      c == ComputeCentroid(s)
      reflected == ReflectedPoint(fk, o, s, ch.r)
  IN  IF FLt(reflected.F, s[last - 1].F)
        THEN LET expanded == ExpandedPoint(fk, o, s, reflected, ch.s)
             IN  IF FLt(expanded.F, reflected.F)
                   THEN ReplacePoint(s, last, expanded)
                   ELSE ReplacePoint(s, last, reflected)
        ELSE LET s1 == IF FLt(reflected.F, s[last].F)
                         THEN ReplacePoint(s, last, reflected)
                         ELSE s
                 contracted == ContractedPoint(fk, o, s1, c, ch.s)
             IN  IF FLt(contracted.F, s1[last].F)
                   THEN ReplacePoint(s1, last, contracted)
                   ELSE ShrinkSimplex(s1, o.Delta)

\* runIteration: what it returns (done), the simplex it leaves, the number
\* of objective calls it made, and whether it panicked: with one vertex
\* (n = 0) Points[len-2] is Points[-1], after the call for the reflection
RunIteration(fk, o, s, ch) ==
  IF GapBelowTolerance(s, o.Tolerance)
    THEN [done |-> TRUE, simplex |-> s, calls |-> 0, panic |-> FALSE]
  ELSE IF Len(s) = 1
    THEN [done |-> FALSE, simplex |-> s, calls |-> 1, panic |-> TRUE]
  ELSE LET evaluated == Evaluate(fk, Transform(fk, o, s, ch), ch.e)
           sorted == SortSimplex(evaluated)
       IN  [done |-> FALSE,
            simplex |-> IF Len(o.Constraints) > 0
                          THEN [sorted EXCEPT ![1].X = Clamp(@, o.Constraints)]
                          ELSE sorted,
            calls |-> Len(s) + 2,
            panic |-> FALSE]

\* ---------------------------------------------------------------- storage

\* The storage Run works on.  The heap is the sequence of arrays in the
\* order in which they come to exist: the array of the caller's x0, the
\* array of the caller's options.Constraints, the n+1 arrays createSimplex
\* makes for the vertices, and pointBuf.  A slice is n cells of array a
\* after offset lo; a stored Point is [X |-> slice, F |-> value].

X0Array == 1

ConstraintsArray == 2

Slice(a, lo, n) == [a |-> a, lo |-> lo, n |-> n]

Zeros(n) == [j \in 1..n |-> 0]

\* the values a slice holds
Contents(h, sl) == [j \in 1..sl.n |-> h[sl.a][sl.lo + j]]

\* sl[j-1] = v
Store(h, sl, j, v) == [h EXCEPT ![sl.a][sl.lo + j] = v]

\* the simplex a heap and its stored Points stand for
Deref(h, pts) ==
  [i \in 1..Len(pts) |-> NewPoint(Contents(h, pts[i].X), pts[i].F)]

\* setZero, cells 1..k
RECURSIVE HeapSetZero(_, _, _)
HeapSetZero(h, sl, k) ==
  IF k = 0 THEN h ELSE Store(HeapSetZero(h, sl, k - 1), sl, k, 0)

\* copy(dst, src)
HeapCopy(h, dst, src) ==
  LET m == IF dst.n < src.n THEN dst.n ELSE src.n
  IN  [h EXCEPT ![dst.a] =
         [i \in 1..Len(@) |->
            IF i - dst.lo \in 1..m THEN h[src.a][src.lo + i - dst.lo]
            ELSE @[i]]]

\* ensureXAreInConstraintBounds on the slice x, cells 1..k, in place
RECURSIVE HeapClamp(_, _, _)
HeapClamp(h, x, k) ==
  IF k = 0 THEN h
  ELSE LET g == HeapClamp(h, x, k - 1)
           c == g[ConstraintsArray][k]
           g1 == IF FLt(g[x.a][x.lo + k], c.Min) THEN Store(g, x, k, c.Min)
                 ELSE g
       IN  IF FGt(g1[x.a][x.lo + k], c.Max) THEN Store(g1, x, k, c.Max)
           ELSE g1

\* the loop "Points[i].X[j] = x[j] + 1.0 or x[j]" of createSimplex for
\* vertex i (counted from 0), cells 1..k
RECURSIVE HeapStep(_, _, _, _, _)
HeapStep(h, dst, x, i, k) ==
  IF k = 0 THEN h
  ELSE LET g == HeapStep(h, dst, x, i, k - 1)
           v == g[x.a][x.lo + k]
       IN  Store(g, dst, k, IF i = k THEN FAdd(v, Unit) ELSE v)

\* the Points of createSimplex: Points[i].X is the whole of a new array
MadePoints(h, n) ==
  [i \in 1..(n + 1) |-> [X |-> Slice(Len(h) + i, 0, n), F |-> 0]]

RECURSIVE HeapFill(_, _, _, _)
HeapFill(h, pts, x, i) ==
  IF i = 0 THEN h
  ELSE LET g == HeapStep(HeapFill(h, pts, x, i - 1), pts[i].X, x, i - 1,
                         x.n)
       IN  IF Len(g[ConstraintsArray]) > 0 THEN HeapClamp(g, pts[i].X, x.n)
           ELSE g

\* createSimplex with "simplex.Points[0].X = x" for the copy of x
HeapCreateSimplex_Alias(h, x, n) ==
  LET made == MadePoints(h, n)
      pts == [made EXCEPT ![1].X = x]
      h1 == h \o [i \in 1..(n + 1) |-> Zeros(n)]
  IN  [heap |-> HeapFill(h1, pts, x, n + 1), points |-> pts]

\* createSimplex on the heap: n+1 new arrays, filled from the slice x
HeapCreateSimplex(h, x, n) ==
  LET pts == MadePoints(h, n)
      h1 == h \o [i \in 1..(n + 1) |-> Zeros(n)]
  IN  [heap |-> HeapFill(h1, pts, x, n + 1), points |-> pts]

\* pointBuf and the four slices of it
ReflectedSlice(b, n) == Slice(b, 0, n)

ExpandedSlice(b, n) == Slice(b, n, n)

ContractedSlice(b, n) == Slice(b, 2 * n, n)

CentroidSlice(b, n) == Slice(b, 3 * n, n)

\* "centroid[j] += Points[i].X[j]", cells 1..k
RECURSIVE HeapAdd(_, _, _, _)
HeapAdd(h, c, x, k) ==
  IF k = 0 THEN h
  ELSE LET g == HeapAdd(h, c, x, k - 1)
       IN  Store(g, c, k, FAdd(g[c.a][c.lo + k], g[x.a][x.lo + k]))

\* the first loop of computeCentroid over Points 1..i, the last excluded
RECURSIVE HeapSum(_, _, _, _)
HeapSum(h, c, pts, i) ==
  IF i = 0 THEN h
  ELSE LET g == HeapSum(h, c, pts, i - 1)
       IN  IF i = Len(pts) THEN g ELSE HeapAdd(g, c, pts[i].X, pts[i].X.n)

\* "centroid[j] /= float64(len(simplex.Points) - 1)", cells 1..k
RECURSIVE HeapDivide(_, _, _, _)
HeapDivide(h, c, m, k) ==
  IF k = 0 THEN h
  ELSE LET g == HeapDivide(h, c, m, k - 1)
       IN  Store(g, c, k, FDivN(g[c.a][c.lo + k], m))

\* computeCentroid
HeapComputeCentroid(h, c, pts) ==
  HeapDivide(HeapSum(h, c, pts, Len(pts)), c, Len(pts) - 1, c.n)

\* the loop of Point.reflect: dst[j] = c[j] + coef*(c[j] - p[j]), cells 1..k
RECURSIVE HeapReflect(_, _, _, _, _, _)
HeapReflect(h, p, dst, c, coef, k) ==
  IF k = 0 THEN h
  ELSE LET g == HeapReflect(h, p, dst, c, coef, k - 1)
           cj == g[c.a][c.lo + k]
       IN  Store(g, dst, k, FMulAdd(cj, coef, FSub(cj, g[p.a][p.lo + k])))

\* the inner loop of shrinkSimplex on one vertex, cells 1..k
RECURSIVE HeapShrinkPoint(_, _, _, _, _)
HeapShrinkPoint(h, x, best, delta, k) ==
  IF k = 0 THEN h
  ELSE LET g == HeapShrinkPoint(h, x, best, delta, k - 1)
           bj == g[best.a][best.lo + k]
       IN  Store(g, x, k, FMulAdd(bj, delta, FSub(g[x.a][x.lo + k], bj)))

\* shrinkSimplex, Points 2..i
RECURSIVE HeapShrink(_, _, _, _)
HeapShrink(h, pts, delta, i) ==
  IF i <= 1 THEN h
  ELSE HeapShrinkPoint(HeapShrink(h, pts, delta, i - 1), pts[i].X,
                       pts[1].X, delta, pts[i].X.n)

\* Simplex.replacePoint as "s.Points[i] = newPoint": the vertex takes the
\* slice of the scratch Point, which is then set to zero
HeapReplacePoint_Assign(h, pts, i, np) ==
  [heap |-> HeapSetZero(h, np.X, np.X.n),
   points |-> [pts EXCEPT ![i] = np]]

\* Simplex.replacePoint: copy the coordinates and F, set the scratch
\* coordinates to zero
HeapReplacePoint(h, pts, i, np) ==
  [heap |-> HeapSetZero(HeapCopy(h, pts[i].X, np.X), np.X, np.X.n),
   points |-> [pts EXCEPT ![i].F = np.F]]

\* runIteration between the convergence test and the evaluation loop
HeapTransform(fk, o, h, pts, ch) ==
  LET last == Len(pts)
      n == pts[1].X.n
      b == Len(h)
      c == CentroidSlice(b, n)
      h1 == HeapComputeCentroid(h, c, pts)
      h2 == HeapReflect(h1, pts[last].X, ReflectedSlice(b, n), c, o.Alpha, n)
      reflected == [X |-> ReflectedSlice(b, n),
                    F |-> Objective(fk, Contents(h2, ReflectedSlice(b, n)),
                                    ch.r)]
  IN  IF FLt(reflected.F, pts[last - 1].F)
        THEN LET h3 == HeapReflect(h2, reflected.X, ExpandedSlice(b, n), c,
                                   o.Gamma, n)
                 expanded ==
                   [X |-> ExpandedSlice(b, n),
                    F |-> Objective(fk, Contents(h3, ExpandedSlice(b, n)),
                                    ch.s)]
             IN  IF FLt(expanded.F, reflected.F)
                   THEN HeapReplacePoint(h3, pts, last, expanded)
                   ELSE HeapReplacePoint(h3, pts, last, reflected)
        ELSE LET s1 == IF FLt(reflected.F, pts[last].F)
                         THEN HeapReplacePoint(h2, pts, last, reflected)
                         ELSE [heap |-> h2, points |-> pts]
                 h3 == HeapReflect(s1.heap, s1.points[last].X,
                                   ContractedSlice(b, n), c, o.Beta, n)
                 contracted ==
                   [X |-> ContractedSlice(b, n),
                    F |-> Objective(fk, Contents(h3, ContractedSlice(b, n)),
                                    ch.s)]
             IN  IF FLt(contracted.F, s1.points[last].F)
                   THEN HeapReplacePoint(h3, s1.points, last, contracted)
                   ELSE [heap |-> HeapShrink(h3, s1.points, o.Delta, last),
                         points |-> s1.points]

\* the n+1 evaluations on the heap
HeapEvaluate(fk, h, pts, vals) ==
  [i \in 1..Len(pts) |->
     [pts[i] EXCEPT !.F = Objective(fk, Contents(h, pts[i].X), vals[i])]]

\* runIteration on the heap, pointBuf being the last array: the heap and
\* the Points it leaves, what it returns, and whether it panicked
HeapRunIteration(fk, o, h, pts, ch) ==
  LET b == Len(h)
      n == pts[1].X.n
      h0 == HeapSetZero(h, CentroidSlice(b, n), n)
  IN  IF GapBelowTolerance(pts, o.Tolerance)
        THEN [done |-> TRUE, heap |-> h0, points |-> pts, panic |-> FALSE]
      ELSE IF Len(pts) = 1
        THEN [done |-> FALSE, heap |-> h0, points |-> pts, panic |-> TRUE]
      ELSE LET t == HeapTransform(fk, o, h0, pts, ch)
               sorted == SortSimplex(HeapEvaluate(fk, t.heap, t.points, ch.e))
           IN  [done |-> FALSE,
                heap |-> IF Len(h[ConstraintsArray]) > 0
                           THEN HeapClamp(t.heap, sorted[1].X, n)
                           ELSE t.heap,
                points |-> sorted,
                panic |-> FALSE]

\* ----------------------------------------------------------------- state

VARIABLES
  f,          \* the objective passed to Run
  x0,         \* the initial guess passed to Run
  options,    \* the Options passed to Run
  simplex,    \* simplex.Points, <<>> before createSimplex
  iter,       \* the loop counter of Run
  done,       \* the flag of Run's loop
  pc,         \* "call", "loop", "returned" or "panic"
  retPoint,   \* the Point Run returned
  retErr,     \* "none" before the return; then "nil", "validation", "collapse"
  calls,      \* how many times the objective has been called
  heap,       \* the arrays: of x0, of options.Constraints, of the vertices,
              \* and pointBuf
  points      \* simplex.Points as stored: a slice and F for each vertex

vars ==
  <<f, x0, options, simplex, iter, done, pc, retPoint, retErr, calls, heap,
    points>>

\* ---------------------------------------------------------------- inputs

Coefficients == {<<0, 1>>, <<1, 2>>, <<1, 1>>, <<2, 1>>}

\* the values an arbitrary objective returns
ArbVals == {0, FUnit, NaN}

\* the MaxIterations of the runs of an arbitrary objective
ArbIterations == {1, 2}

CoordVals == {k * Unit : k \in 0..MaxCoord} \cup {NaN}

Guesses(dims) == UNION {[1..n -> CoordVals] : n \in dims}

Box(lo, hi) == [Min |-> lo, Max |-> hi]

ValidBoxes == {Box(0, 2 * Unit), Box(Unit, 4 * Unit)}

InvalidBoxes ==
  {Box(Unit, Unit), Box(2 * Unit, 0), Box(NaN, 2 * Unit), Box(0, PosInf)}

ConstraintLists(boxes, dims) == UNION {[1..n -> boxes] : n \in dims}

ToleranceVals == {1, FUnit}

ThresholdVals == {0, Unit, 2 * Unit}

NewOptions(a, b, g, d, tol, thr, mi, cs) ==
  [Alpha |-> a, Beta |-> b, Gamma |-> g, Delta |-> d, Tolerance |-> tol,
   CollapseThreshold |-> thr, MaxIterations |-> mi, Constraints |-> cs]

\* the default coefficients, with the lists cs of boxes and the iterations mis
DefaultCoefficientOptions(cs, mis) ==
  {NewOptions(DefaultAlpha, DefaultBeta, DefaultGamma, DefaultDelta,
              tol, thr, mi, c) :
     tol \in ToleranceVals, thr \in ThresholdVals, mi \in mis, c \in cs}

\* every combination of coefficients, Tolerance and MaxIterations, in range
\* or not, without a collapse check and with a valid list of boxes
AnyCoefficientOptions ==
  {NewOptions(abgd[1], abgd[2], abgd[3], abgd[4], tol, 0, mi, cs) :
     abgd \in Coefficients \X Coefficients \X Coefficients \X Coefficients,
     tol \in {0 - FUnit, 0, FUnit}, mi \in {0 - 1, 0, 1},
     cs \in {<<>>, <<Box(0, 2 * Unit)>>}}

\* the calls of Run the model makes:
\*  - the objectives of the tests, in dimension 1 and 2, with the default
\*    coefficients and every list of at most two boxes, valid or not;
\*  - an objective of dimension 1 with every combination of coefficients;
\*  - an arbitrary objective in dimension 0 and 1;
\*  - two objectives that are not convex, in dimension 1 and 2, with the
\*    default coefficients and every list of valid boxes.
Inputs ==
  [f : {"diff", "sq"}, x0 : Guesses({1, 2}),
   options : DefaultCoefficientOptions(
               ConstraintLists(ValidBoxes \cup InvalidBoxes, {0, 1, 2}),
               1..IterBound)]
  \cup [f : {"diff"}, x0 : Guesses({1}), options : AnyCoefficientOptions]
  \cup [f : {"arb"}, x0 : Guesses({0, 1}),
        options : DefaultCoefficientOptions(
                    ConstraintLists(ValidBoxes, {0, 1}), ArbIterations)]
  \cup [f : {"hump", "saw"}, x0 : Guesses({1, 2}),
        options : DefaultCoefficientOptions(
                    ConstraintLists(
                      ValidBoxes \cup {Box(0, Unit), Box(0, Unit + Unit \div 2)},
                      {0, 1, 2}),
                    1..IterBound)]

\* DefaultTolerance, 1e-6: below the smallest positive gap 1/FUnit two
\* values of the model can have, so the gap is below it exactly when it is 0
DefaultTolerance == 1

DefaultMaxIterations == 1000

\* NewOptions() with the Constraints cs
DefaultOptions(cs) ==
  NewOptions(DefaultAlpha, DefaultBeta, DefaultGamma, DefaultDelta,
             DefaultTolerance, 0, DefaultMaxIterations, cs)

\* the calls of Run of ExampleRun, f(x) = x0^3 - x1 in the box
\* [3, 5] x [0, 10] with the default options, from the guess [4, 5] and
\* from the other guesses of whole coordinates in and around the box
ScenarioInputs ==
  [f : {"cube"},
   x0 : {<<a * Unit, b * Unit>> : a \in 2..6, b \in 0..10},
   options : {DefaultOptions(<<Box(3 * Unit, 5 * Unit),
                               Box(0, 10 * Unit)>>)}]

\* the calls of Run on an arbitrary objective of one coordinate whose box
\* is as wide as the step between two neighbouring float64 values (1/Unit
\* in the model) or as the step of createSimplex, with Delta 1/2 and 3/4,
\* from guesses in the box and from one above it
NarrowInputs ==
  [f : {"arb"},
   x0 : {<<0>>, <<1>>, <<2 * Unit>>},
   options : {NewOptions(DefaultAlpha, DefaultBeta, DefaultGamma, d,
                         DefaultTolerance, 0, mi, <<b>>) :
                d \in {<<1, 2>>, <<3, 4>>}, mi \in ArbIterations,
                b \in {Box(0, 1), Box(0, Unit)}}]

\* what an arbitrary objective returns in one runIteration
Choices(fk, m) ==
  IF fk = "arb" THEN [r : ArbVals, s : ArbVals, e : [1..m -> ArbVals]]
  ELSE {[r |-> 0, s |-> 0, e |-> [i \in 1..m |-> 0]]}

EvalChoices(fk, m) ==
  IF fk = "arb" THEN [1..m -> ArbVals] ELSE {[i \in 1..m |-> 0]}

\* ------------------------------------------------------------------- Run

\* "return simplex.Points[len(simplex.Points)-1], nil"
BestPoint_Last(s) == s[Len(s)]

\* the Point of "return simplex.Points[0], nil"
BestPoint(s) == s[1]

\* "return simplex.Points[0], ErrorSimplexCollapse{}"
CollapsePoint_Best(s) == s[1]

\* the Point of "return Point{}, ErrorSimplexCollapse{}"
CollapsePoint(s) == EmptyPoint

Init ==
  /\ \E in \in Inputs : f = in.f /\ x0 = in.x0 /\ options = in.options
  /\ simplex = <<>>
  /\ iter = 0
  /\ done = FALSE
  /\ pc = "call"
  /\ retPoint = EmptyPoint
  /\ retErr = "none"
  /\ calls = 0
  /\ heap = <<x0, options.Constraints>>
  /\ points = <<>>

\* Run, when validate or validateX0 returns an error
RunReject ==
  /\ pc = "call"
  /\ OptionsInvalid(options) \/ X0Invalid(options, x0)
  /\ pc' = "returned"
  /\ retPoint' = EmptyPoint
  /\ retErr' = "validation"
  /\ UNCHANGED <<f, x0, options, simplex, iter, done, calls, heap, points>>

\* Run, from createSimplex to the start of the loop
RunBegin ==
  /\ pc = "call"
  /\ ~OptionsInvalid(options)
  /\ ~X0Invalid(options, x0)
  /\ \E vals \in EvalChoices(f, Len(x0) + 1) :
       LET made == HeapCreateSimplex(heap, Slice(X0Array, 0, Len(x0)),
                                     Len(x0))
       IN  /\ simplex' = SortSimplex(Evaluate(f,
                 CreateSimplex(x0, Len(x0), options.Constraints), vals))
           /\ points' = SortSimplex(HeapEvaluate(f, made.heap, made.points,
                                                 vals))
           /\ heap' = Append(made.heap, Zeros(4 * Len(x0)))
  /\ calls' = calls + Len(x0) + 1
  /\ iter' = 0
  /\ done' = FALSE
  /\ pc' = "loop"
  /\ UNCHANGED <<f, x0, options, retPoint, retErr>>

\* the loop condition with "iter <= options.MaxIterations"
LoopContinues_OneMore(it, o, d) == it <= o.MaxIterations /\ ~d

\* the condition of Run's loop: iter < options.MaxIterations && !done
LoopContinues(it, o, d) == it < o.MaxIterations /\ ~d

\* one pass of Run's loop: runIteration, then the collapse check
RunLoop ==
  /\ pc = "loop"
  /\ LoopContinues(iter, options, done)
  /\ \E ch \in Choices(f, Len(simplex)) :
       LET it == RunIteration(f, options, simplex, ch)
           stored == HeapRunIteration(f, options, heap, points, ch)
       IN  /\ calls' = calls + it.calls
           /\ simplex' = it.simplex
           /\ heap' = stored.heap
           /\ points' = stored.points
           /\ IF it.panic
                THEN /\ pc' = "panic"
                     /\ UNCHANGED <<iter, done, retPoint, retErr>>
                ELSE \E collapsed \in IsCollapsed(it.simplex,
                                                 options.CollapseThreshold) :
                       IF collapsed
                         THEN /\ pc' = "returned"
                              /\ retPoint' = CollapsePoint(it.simplex)
                              /\ retErr' = "collapse"
                              /\ UNCHANGED iter
                              /\ done' = it.done
                         ELSE /\ pc' = "loop"
                              /\ iter' = iter + 1
                              /\ done' = it.done
                              /\ UNCHANGED <<retPoint, retErr>>
  /\ UNCHANGED <<f, x0, options>>

\* Run, after the loop: return simplex.Points[0], nil
RunReturn ==
  /\ pc = "loop"
  /\ ~LoopContinues(iter, options, done)
  /\ pc' = "returned"
  /\ retPoint' = BestPoint(simplex)
  /\ retErr' = "nil"
  /\ UNCHANGED <<f, x0, options, simplex, iter, done, calls, heap, points>>

Next == RunReject \/ RunBegin \/ RunLoop \/ RunReturn

Spec == Init /\ [][Next]_vars

InitScenario ==
  /\ \E in \in ScenarioInputs : f = in.f /\ x0 = in.x0 /\ options = in.options
  /\ simplex = <<>>
  /\ iter = 0
  /\ done = FALSE
  /\ pc = "call"
  /\ retPoint = EmptyPoint
  /\ retErr = "none"
  /\ calls = 0
  /\ heap = <<x0, options.Constraints>>
  /\ points = <<>>

SpecScenario == InitScenario /\ [][Next]_vars

InitNarrow ==
  /\ \E in \in NarrowInputs : f = in.f /\ x0 = in.x0 /\ options = in.options
  /\ simplex = <<>>
  /\ iter = 0
  /\ done = FALSE
  /\ pc = "call"
  /\ retPoint = EmptyPoint
  /\ retErr = "none"
  /\ calls = 0
  /\ heap = <<x0, options.Constraints>>
  /\ points = <<>>

SpecNarrow == InitNarrow /\ [][Next]_vars

\* ---------------------------------------------------------------- claims

Constrained == Len(options.Constraints) > 0

\* Min <= x <= Max, as float64 compares: false when x is NaN
InBox(x, c) == ~IsNaN(x) /\ c.Min <= x /\ x <= c.Max

AllInBox(x, cs) == \A i \in 1..Len(x) : InBox(x[i], cs[i])

HasNaN(x) == \E i \in 1..Len(x) : IsNaN(x[i])

Deterministic == f # "arb"

\* C1: when Run, given a non-empty valid list of Constraints, returns a nil
\* error, every coordinate i of the returned X has Min_i <= X[i] <= Max_i.
\* Violated: a NaN coordinate of x0 passes validateX0 and the clamp.
C1_ReturnedInBox ==
  (pc = "returned" /\ retErr = "nil" /\ Constrained)
    => AllInBox(retPoint.X, options.Constraints)

\* The statement of C1 holds of every run whose guess has no NaN.
C1_ReturnedInBoxNoNaN ==
  (pc = "returned" /\ retErr = "nil" /\ Constrained /\ ~HasNaN(x0))
    => AllInBox(retPoint.X, options.Constraints)

\* C2: in a constrained run, after the initial sort and after every
\* completed runIteration, the best vertex Points[0].X is inside the box.
\* Violated by the same guess as C1.
C2_BestInBox ==
  (pc = "loop" /\ Constrained)
    => AllInBox(simplex[1].X, options.Constraints)

\* The statement of C2 holds of every run whose guess has no NaN.
C2_BestInBoxNoNaN ==
  (pc = "loop" /\ Constrained /\ ~HasNaN(x0))
    => AllInBox(simplex[1].X, options.Constraints)

\* the coefficients C3 lists as out of range
CoefficientOutOfRange(o) ==
  \/ o.Alpha[1] <= 0
  \/ o.Beta[1] <= 0
  \/ o.Beta[1] >= o.Beta[2]
  \/ o.Gamma[1] <= o.Gamma[2]
  \/ o.Delta[1] <= 0
  \/ o.Delta[1] >= o.Delta[2]
  \/ o.Tolerance <= 0
  \/ o.MaxIterations <= 0

\* C3: with a coefficient out of range the objective is never called and
\* Run returns an error.
C3_BadCoefficientRejected ==
  CoefficientOutOfRange(options)
    => /\ calls = 0
       /\ pc \in {"call", "returned"}
       /\ pc = "returned" => (retErr = "validation" /\ retPoint = EmptyPoint)

\* Run has rejected options whose only fault is Beta = 1
C3_Witness ==
  /\ pc = "returned"
  /\ retErr = "validation"
  /\ options.Beta = <<1, 1>>
  /\ options.Alpha = <<1, 1>>
  /\ options.Gamma = <<2, 1>>
  /\ options.Delta = <<1, 2>>
  /\ options.Tolerance > 0
  /\ options.MaxIterations > 0

\* a Constraint whose Min is not strictly below Max, or with a bound that
\* is not finite
BadConstraint(c) ==
  \/ IsNaN(c.Min) \/ IsNaN(c.Max) \/ IsInf(c.Min) \/ IsInf(c.Max)
  \/ ~(c.Min < c.Max)

\* C4: with a Constraint whose Min is not strictly below Max (Min = Max
\* included) or whose bound is not finite, Run returns an error without
\* calling the objective.
C4_BadConstraintRejected ==
  (\E i \in 1..Len(options.Constraints) : BadConstraint(options.Constraints[i]))
    => /\ calls = 0
       /\ pc \in {"call", "returned"}
       /\ pc = "returned" => (retErr = "validation" /\ retPoint = EmptyPoint)

\* Run has rejected a list of boxes whose only fault is Min = Max, for a
\* guess that lies on that bound
C4_Witness ==
  /\ pc = "returned"
  /\ retErr = "validation"
  /\ ~CoefficientOutOfRange(options)
  /\ Len(options.Constraints) = Len(x0)
  /\ \E i \in 1..Len(x0) :
       /\ options.Constraints[i].Min = options.Constraints[i].Max
       /\ x0[i] = options.Constraints[i].Min
  /\ \A i \in 1..Len(x0) :
       /\ ~IsNaN(options.Constraints[i].Min) /\ ~IsInf(options.Constraints[i].Min)
       /\ ~IsNaN(options.Constraints[i].Max) /\ ~IsInf(options.Constraints[i].Max)
       /\ options.Constraints[i].Min <= options.Constraints[i].Max

\* Run rejected its input / Run accepted its input (it went on to
\* createSimplex)
Rejected == pc = "returned" /\ retErr = "validation" /\ calls = 0
Accepted == pc # "call" /\ retErr # "validation"

\* some coordinate of the guess is not within its bounds [Min, Max]
GuessOutside(o, x) ==
  \E i \in 1..Len(x) : ~InBox(x[i], o.Constraints[i])

\* C5: with no Constraints every x0 is accepted; with Constraints Run fails
\* before any objective call if their number is not len(x0) or if some
\* x0[i] is outside [Min_i, Max_i], and accepts an x0 within the bounds,
\* the bounds included.  Violated: a NaN coordinate is accepted.
C5_GuessValidated ==
  (pc # "call" /\ ~OptionsInvalid(options))
    => /\ ~Constrained => Accepted
       /\ (Constrained /\ Len(options.Constraints) # Len(x0)) => Rejected
       /\ (Constrained /\ Len(options.Constraints) = Len(x0))
            => IF GuessOutside(options, x0) THEN Rejected ELSE Accepted

\* The statement of C5 holds of every guess without NaN.
C5_GuessValidatedNoNaN == HasNaN(x0) \/ C5_GuessValidated

\* a pass of Run's loop is about to start
AtIteration == pc = "loop" /\ LoopContinues(iter, options, done)

\* C6: whenever an iteration starts with |Points[0].F - Points[n].F| <
\* Tolerance, the run is CONVERGED and Run returns Points[0] and nil.
\* Violated: the collapse check runs after the iteration that converged.
C6_ConvergedReturnsBest ==
  [][(AtIteration /\ GapBelowTolerance(simplex, options.Tolerance))
       => /\ pc' = "loop"
          /\ done'
          /\ simplex' = simplex]_vars

\* With CollapseThreshold = 0 the statement of C6 holds.
C6_ConvergedReturnsBestNoThreshold ==
  [][(AtIteration /\ GapBelowTolerance(simplex, options.Tolerance)
        /\ options.CollapseThreshold = 0)
       => /\ pc' = "loop"
          /\ done'
          /\ simplex' = simplex]_vars

\* C7: after MaxIterations iterations, none of which converged or
\* collapsed, Run returns the current Points[0] and a nil error.
C7_ExhaustedReturnsBest ==
  [][(pc = "loop" /\ ~done /\ iter = options.MaxIterations)
       => /\ pc' = "returned"
          /\ retErr' = "nil"
          /\ retPoint' = simplex[1]
          /\ simplex' = simplex]_vars

\* Run has returned after MaxIterations transforms, with two vertices of
\* different value
C7_Witness ==
  /\ pc = "returned"
  /\ retErr = "nil"
  /\ ~done
  /\ iter = options.MaxIterations
  /\ calls = (Len(x0) + 1) + iter * (Len(x0) + 3)
  /\ simplex[1].F # simplex[Len(simplex)].F
  /\ retPoint = simplex[1]

\* the pairs of vertices i < j
VertexPairs(s) == {p \in (1..Len(s)) \X (1..Len(s)) : p[1] < p[2]}

RECURSIVE SumUpper(_, _)
SumUpper(s, ps) ==
  IF ps = {} THEN 0
  ELSE LET p == CHOOSE q \in ps : TRUE
       IN  FAdd(Distance(s[p[1]].X, s[p[2]].X).hi, SumUpper(s, ps \ {p}))

\* the mean Euclidean distance over the pairs of vertices is below thr
MeanDistanceBelow(s, thr) ==
  /\ VertexPairs(s) # {}
  /\ ~IsNaN(SumUpper(s, VertexPairs(s)))
  /\ SumUpper(s, VertexPairs(s)) < thr * Cardinality(VertexPairs(s))

\* C8: with CollapseThreshold # 0, when an iteration leaves a simplex whose
\* mean vertex distance is below CollapseThreshold, Run returns at once,
\* with ErrorSimplexCollapse and the empty Point.
C8_CollapseReturnsEmpty ==
  [][(AtIteration /\ pc' # "panic" /\ options.CollapseThreshold # 0
        /\ MeanDistanceBelow(simplex', options.CollapseThreshold))
       => /\ pc' = "returned"
          /\ retErr' = "collapse"
          /\ retPoint' = EmptyPoint
          /\ iter' = iter]_vars

\* Run has returned ErrorSimplexCollapse after a transform, leaving a
\* simplex of distinct vertices closer than the threshold
C8_Witness ==
  /\ pc = "returned"
  /\ retErr = "collapse"
  /\ retPoint = EmptyPoint
  /\ calls > Len(x0) + 1
  /\ Len(x0) = 2
  /\ simplex[1].X # simplex[2].X
  /\ MeanDistanceBelow(simplex, options.CollapseThreshold)

\* C9: with CollapseThreshold = 0 Run never returns ErrorSimplexCollapse.
C9_NoCollapseWithoutThreshold ==
  options.CollapseThreshold = 0 => retErr # "collapse"

\* Run has returned a vertex of a simplex whose vertices all coincide,
\* with CollapseThreshold = 0
C9_Witness ==
  /\ pc = "returned"
  /\ retErr = "nil"
  /\ options.CollapseThreshold = 0
  /\ Len(simplex) > 1
  /\ \A i \in 1..Len(simplex) : simplex[i].X = simplex[1].X

\* C10: for a deterministic objective Points[0].F never increases from one
\* iteration boundary to the next.  Violated in a constrained run: the
\* clamped best vertex keeps the value of the point it was clamped from.
C10_BestNeverIncreases ==
  [][(Deterministic /\ pc = "loop" /\ pc' = "loop")
       => ~FGt(simplex'[1].F, simplex[1].F)]_vars

\* Without Constraints the statement of C10 holds.
C10_BestNeverIncreasesUnconstrained ==
  [][(Deterministic /\ ~Constrained /\ pc = "loop" /\ pc' = "loop")
       => ~FGt(simplex'[1].F, simplex[1].F)]_vars

\* C11: for a deterministic objective the Point a successful Run returns
\* has F equal to the objective at its X.  Violated in a constrained run:
\* the best vertex is clamped after the evaluation and keeps the value of
\* the point it was clamped from.
C11_ReturnedValueIsCurrent ==
  (Deterministic /\ ~HasNaN(x0) /\ pc = "returned" /\ retErr = "nil")
    => retPoint.F = Objective(f, retPoint.X, 0)

\* Without Constraints the statement of C11 holds.
C11_ReturnedValueIsCurrentUnconstrained ==
  (Deterministic /\ ~Constrained /\ ~HasNaN(x0)
     /\ pc = "returned" /\ retErr = "nil")
    => retPoint.F = Objective(f, retPoint.X, 0)

\* Run has returned without evaluating the objective after the initial
\* simplex, whose gap was below Tolerance
InitialSimplexConverged ==
  /\ Deterministic
  /\ pc = "returned"
  /\ retErr # "validation"
  /\ calls = Len(x0) + 1
  /\ GapBelowTolerance(simplex, options.Tolerance)

\* C12: when the initial simplex already has a gap below Tolerance, Run
\* returns, with a nil error, a Point whose F is within Tolerance of the
\* objective at the initial guess.  Violated when the vertices of the
\* initial simplex coincide and CollapseThreshold is positive: Run returns
\* ErrorSimplexCollapse.
C12_ConvergedAtStart ==
  InitialSimplexConverged
    => /\ retErr = "nil"
       /\ FLt(FAbs(FSub(retPoint.F, Objective(f, x0, 0))), options.Tolerance)

\* With CollapseThreshold = 0 the statement of C12 holds.
C12_ConvergedAtStartNoThreshold ==
  (InitialSimplexConverged /\ options.CollapseThreshold = 0)
    => /\ retErr = "nil"
       /\ FLt(FAbs(FSub(retPoint.F, Objective(f, x0, 0))), options.Tolerance)

\* C13: once the initial simplex is built, and after every completed
\* iteration, the simplex holds n+1 Points of n coordinates each, ordered
\* ascending by their cached F (in the order of cmp.Compare).
C13_SimplexShapeAndOrder ==
  (pc \in {"loop", "returned"} /\ retErr # "validation")
    => /\ Len(simplex) = Len(x0) + 1
       /\ \A i \in 1..Len(simplex) : Len(simplex[i].X) = Len(x0)
       /\ \A i, j \in 1..Len(simplex) :
            i < j => Compare(simplex[i].F, simplex[j].F) <= 0

\* a completed iteration has left three vertices of two coordinates with
\* three different values, the best one not the initial guess
C13_Witness ==
  /\ pc = "loop"
  /\ iter >= 1
  /\ calls > Len(x0) + 1
  /\ Len(x0) = 2
  /\ Len(simplex) = 3
  /\ FLt(simplex[1].F, simplex[2].F)
  /\ FLt(simplex[2].F, simplex[3].F)
  /\ simplex[1].X # x0

\* the gap between the best and the worst cached value is at most tol
GapAtMostTolerance(s, tol) ==
  LET gap == FAbs(FSub(s[1].F, s[Len(s)].F))
  IN  ~IsNaN(gap) /\ ~IsNaN(tol) /\ gap <= tol

\* C14: an iteration that starts with a gap less than or equal to
\* Tolerance ends the run as converged and leaves the simplex alone.
\* Violated by a gap equal to Tolerance: runIteration tests gap < Tolerance
\* and goes on to transform the simplex.
C14_StopsAtTolerance ==
  [][(AtIteration /\ GapAtMostTolerance(simplex, options.Tolerance))
       => (done' /\ simplex' = simplex /\ calls' = calls)]_vars

\* With a gap strictly below Tolerance the statement of C14 holds.
C14_StopsBelowTolerance ==
  [][(AtIteration /\ GapBelowTolerance(simplex, options.Tolerance))
       => (done' /\ simplex' = simplex /\ calls' = calls)]_vars

\* the next iteration of a run on a deterministic objective does not
\* converge and its reflected point beats the second worst vertex, so the
\* expanded point is computed
ExpansionComputed ==
  /\ AtIteration
  /\ Deterministic
  /\ ~HasNaN(x0)
  /\ Len(simplex) >= 2
  /\ ~GapBelowTolerance(simplex, options.Tolerance)
  /\ FLt(ReflectedPoint(f, options, simplex, 0).F,
         simplex[Len(simplex) - 1].F)

\* e is on the same side of c as r, and at least as far from c
Beyond(c, r, e) ==
  /\ (r - c) * (e - c) >= 0
  /\ FAbs(e - c) >= FAbs(r - c)

\* C15: whenever an expanded point is computed, each of its coordinates
\* lies on the same side of the centroid as the reflected point's and at
\* least as far from it.  Violated: the expanded point is
\* centroid + Gamma * (centroid - reflected), on the worst vertex's side.
C15_ExpansionBeyondReflection ==
  ExpansionComputed
    => LET c == ComputeCentroid(simplex)
           r == ReflectedPoint(f, options, simplex, 0)
           e == ExpandedPoint(f, options, simplex, r, 0)
       IN  \A j \in 1..Len(c) : Beyond(c[j], r.X[j], e.X[j])

\* the terminal states of a Run call that has returned
InvalidInput == pc = "returned" /\ retErr = "validation"
Converged == pc = "returned" /\ retErr = "nil" /\ done
Collapsed == pc = "returned" /\ retErr = "collapse"
Exhausted == pc = "returned" /\ retErr = "nil" /\ ~done

\* Run is under way or has ended in exactly one terminal state, and
\* INVALID_INPUT comes from a validation failure with no objective call
EndsInTerminalState ==
  /\ pc \in {"call", "loop", "returned"}
  /\ pc = "returned" =>
       \E t \in 1..4 :
         <<InvalidInput, Converged, Collapsed, Exhausted>> =
           [k \in 1..4 |-> k = t]
  /\ InvalidInput =>
       /\ calls = 0
       /\ OptionsInvalid(options) \/ X0Invalid(options, x0)

\* C17: a Run call ends in exactly one of INVALID_INPUT, CONVERGED,
\* COLLAPSED and EXHAUSTED, INVALID_INPUT only through a validation
\* failure before any objective call.  Violated by an empty initial guess
\* whose value is NaN: the first iteration indexes Points[-1] and Run
\* panics instead of returning.
C17_EndsInTerminalState == EndsInTerminalState

\* With a guess of at least one coordinate the statement of C17 holds.
C17_EndsInTerminalStateNonEmpty == Len(x0) > 0 => EndsInTerminalState

\* Once Run has returned nothing is evaluated or transformed any more.
C17_NothingAfterReturn == [][pc = "returned" => UNCHANGED vars]_vars

\* C18: the run of f(x) = x0^3 - x1 from the guess [4, 5] in the box
\* [3, 5] x [0, 10] with the default options returns X = [3, 10] and
\* F = 17 with a nil error.
C18_ExampleRun ==
  (f = "cube" /\ x0 = <<4 * Unit, 5 * Unit>> /\ pc = "returned")
    => /\ retErr = "nil"
       /\ retPoint.X = <<3 * Unit, 10 * Unit>>
       /\ retPoint.F = 17 * FUnit

\* that run has converged and returned
C18_Witness ==
  /\ f = "cube"
  /\ x0 = <<4 * Unit, 5 * Unit>>
  /\ options = DefaultOptions(<<Box(3 * Unit, 5 * Unit), Box(0, 10 * Unit)>>)
  /\ pc = "returned"
  /\ done
  /\ iter > 1
  /\ retPoint = NewPoint(<<3 * Unit, 10 * Unit>>, 17 * FUnit)

\* the smaller of two numbers
Least(a, b) == IF a < b THEN a ELSE b

\* the vertices createSimplex builds for the accepted guess of the run
InitialVertices == CreateSimplex(x0, Len(x0), options.Constraints)

\* vertex 0 is x0, and vertex i is x0 with coordinate i-1 one unit further,
\* held at Max when there are Constraints
StepVertices(sx) ==
  /\ Len(sx) = Len(x0) + 1
  /\ sx[1].X = x0
  /\ \A i \in 1..Len(x0) :
       sx[i + 1].X =
         [j \in 1..Len(x0) |->
            IF j # i THEN x0[j]
            ELSE IF Constrained
                   THEN Least(x0[j] + Unit, options.Constraints[j].Max)
                   ELSE x0[j] + Unit]

\* C19: for an accepted guess without NaN, createSimplex builds x0 as
\* vertex 0 and, as vertex i, x0 with coordinate i-1 increased by 1 and then
\* clamped when there are Constraints; every vertex is then inside the box,
\* and the sorted simplex the loop starts from holds exactly these vertices.
C19_InitialSimplex ==
  (~OptionsInvalid(options) /\ ~X0Invalid(options, x0) /\ ~HasNaN(x0))
    => /\ StepVertices(InitialVertices)
       /\ Constrained =>
            \A i \in 1..Len(InitialVertices) :
              AllInBox(InitialVertices[i].X, options.Constraints)
       /\ (pc = "loop" /\ iter = 0) =>
            /\ Len(simplex) = Len(InitialVertices)
            /\ \A i \in 1..Len(simplex) :
                 /\ \E k \in 1..Len(simplex) :
                      simplex[k].X = InitialVertices[i].X
                 /\ \E k \in 1..Len(simplex) :
                      InitialVertices[k].X = simplex[i].X

\* the loop is about to start from the simplex of a guess of two
\* coordinates in a box, the first one on its Max, so that the clamp has
\* held vertex 1 at x0, and the second one below its Max
C19_Witness ==
  /\ pc = "loop"
  /\ iter = 0
  /\ Constrained
  /\ Len(x0) = 2
  /\ AllInBox(x0, options.Constraints)
  /\ x0[1] = options.Constraints[1].Max
  /\ x0[2] < options.Constraints[2].Max
  /\ InitialVertices[2].X = x0
  /\ InitialVertices[3].X = <<x0[1], x0[2] + Unit>>
  /\ \E k \in 1..3 : simplex[k].X = <<x0[1], x0[2] + Unit>>

\* the sum of coordinate j over the vertices before the worst one
RECURSIVE SumOfBetter(_, _, _)
SumOfBetter(s, j, i) ==
  IF i >= Len(s) THEN 0 ELSE s[i].X[j] + SumOfBetter(s, j, i + 1)

\* q is c + k * (c - p) in every coordinate, for c the mean of the vertices
\* of s before the worst one and k = <<numerator, denominator>>; with m the
\* number of these vertices and S their sum, this is
\* q * den * m = den * S + num * (S - m * p)
IsTransformOf(q, p, k, s) ==
  LET m == Len(s) - 1
  IN  \A j \in 1..Len(q) :
        LET sum == SumOfBetter(s, j, 1)
        IN  q[j] * k[2] * m = k[2] * sum + k[1] * (sum - m * p[j])

\* an iteration of a run on a deterministic objective is about to
\* transform a simplex of at least two vertices
TransformComputed ==
  /\ AtIteration
  /\ Deterministic
  /\ ~HasNaN(x0)
  /\ Len(simplex) >= 2
  /\ ~GapBelowTolerance(simplex, options.Tolerance)

\* C20: the reflected point is c + Alpha*(c - worst), the expanded point
\* c + Gamma*(c - reflected) and the contracted point c + Beta*(c - current
\* worst), with c the mean of all vertices but the worst, and each
\* candidate carries the objective's value at its new coordinates.
C20_TransformFormula ==
  TransformComputed
    => LET last == Len(simplex)
           r == ReflectedPoint(f, options, simplex, 0)
           e == ExpandedPoint(f, options, simplex, r, 0)
           s1 == IF FLt(r.F, simplex[last].F)
                   THEN ReplacePoint(simplex, last, r) ELSE simplex
           ct == ContractedPoint(f, options, s1, ComputeCentroid(simplex), 0)
       IN  /\ IsTransformOf(r.X, simplex[last].X, options.Alpha, simplex)
           /\ r.F = Objective(f, r.X, 0)
           /\ FLt(r.F, simplex[last - 1].F) =>
                /\ IsTransformOf(e.X, r.X, options.Gamma, simplex)
                /\ e.F = Objective(f, e.X, 0)
           /\ ~FLt(r.F, simplex[last - 1].F) =>
                /\ IsTransformOf(ct.X, s1[last].X, options.Beta, simplex)
                /\ ct.F = Objective(f, ct.X, 0)

\* after at least one iteration, a simplex of three vertices, no two of
\* them equal, is about to be reflected and contracted, and the reflected
\* point first replaces the worst vertex
C20_Witness ==
  /\ TransformComputed
  /\ iter >= 1
  /\ Len(simplex) = 3
  /\ simplex[1].X # simplex[2].X
  /\ simplex[2].X # simplex[3].X
  /\ simplex[1].X # simplex[3].X
  /\ LET r == ReflectedPoint(f, options, simplex, 0)
     IN  /\ ~FLt(r.F, simplex[2].F)
         /\ FLt(r.F, simplex[3].F)
         /\ r.X # simplex[3].X

\* after the iteration the simplex holds the point p, with the value it
\* was given, at its coordinates or, as the new best vertex of a
\* constrained run, at its clamped coordinates
InstalledNext(p) ==
  \E k \in 1..Len(simplex') :
    /\ simplex'[k].F = p.F
    /\ \/ simplex'[k].X = p.X
       \/ /\ k = 1
          /\ Constrained
          /\ simplex'[k].X = Clamp(p.X, options.Constraints)

\* C21: when the reflected value is below the second worst, the iteration
\* replaces the worst vertex by the expanded point if its value is below
\* the reflected one and by the reflected point otherwise, a tie included;
\* nothing else is transformed and the installed value is the smaller of
\* the two.
C21_ExpansionBranch ==
  [][ExpansionComputed =>
       LET last == Len(simplex)
           r == ReflectedPoint(f, options, simplex, 0)
           e == ExpandedPoint(f, options, simplex, r, 0)
           inst == IF e.F < r.F THEN e ELSE r
           ch == CHOOSE c \in Choices(f, last) : TRUE
       IN  /\ Transform(f, options, simplex, ch) =
                [simplex EXCEPT ![last] = inst]
           /\ inst.F = Least(r.F, e.F)
           /\ InstalledNext(inst)
           /\ calls' = calls + last + 2]_vars

\* an iteration is about to install an expanded point whose value is below
\* the reflected one, in a simplex of three different vertices
C21_Witness ==
  /\ ExpansionComputed
  /\ Len(simplex) = 3
  /\ simplex[1].X # simplex[2].X
  /\ simplex[2].X # simplex[3].X
  /\ LET r == ReflectedPoint(f, options, simplex, 0)
         e == ExpandedPoint(f, options, simplex, r, 0)
     IN  e.F < r.F /\ e.X # r.X

\* an iteration is about to install a reflected point whose value ties
\* with the expanded one
C21_WitnessTie ==
  /\ ExpansionComputed
  /\ LET r == ReflectedPoint(f, options, simplex, 0)
         e == ExpandedPoint(f, options, simplex, r, 0)
     IN  e.F = r.F /\ e.X # r.X

\* after the iteration the simplex holds a vertex at the coordinates x or,
\* as the new best vertex of a constrained run, at x clamped
HoldsNext(x) ==
  \E k \in 1..Len(simplex') :
    \/ simplex'[k].X = x
    \/ /\ k = 1
       /\ Constrained
       /\ simplex'[k].X = Clamp(x, options.Constraints)

\* an iteration is about to transform the simplex and its reflected value
\* is not below the second worst
ContractionComputed ==
  /\ TransformComputed
  /\ ~FLt(ReflectedPoint(f, options, simplex, 0).F,
          simplex[Len(simplex) - 1].F)

\* the simplex of the iteration once the reflected point has replaced the
\* worst vertex, which it does only with a value below the worst
AfterReflection ==
  LET last == Len(simplex)
      r == ReflectedPoint(f, options, simplex, 0)
  IN  IF r.F < simplex[last].F THEN [simplex EXCEPT ![last] = r] ELSE simplex

\* C22: when the reflected value is not below the second worst, the
\* reflected point replaces the worst vertex only with a value below the
\* worst; the contracted point is c + Beta*(c - now-current worst) and
\* replaces the worst when its value is below the now-current worst;
\* otherwise, a tie included, the simplex that holds the reflected point
\* is shrunk.
C22_ContractionBranch ==
  [][ContractionComputed =>
       LET last == Len(simplex)
           s1 == AfterReflection
           ct == ContractedPoint(f, options, s1, ComputeCentroid(simplex), 0)
           ch == CHOOSE c \in Choices(f, last) : TRUE
           t == Transform(f, options, simplex, ch)
       IN  /\ IsTransformOf(ct.X, s1[last].X, options.Beta, simplex)
           /\ IF ct.F < s1[last].F
                THEN /\ t = [s1 EXCEPT ![last] = ct]
                     /\ InstalledNext(ct)
                ELSE /\ t = ShrinkSimplex(s1, options.Delta)
                     /\ \A i \in 1..last : HoldsNext(t[i].X)
           /\ calls' = calls + last + 2]_vars

\* an iteration is about to install a reflected point between the second
\* worst and the worst vertex of three, and then to shrink, its contracted
\* value tying with the reflected one or above it
C22_Witness ==
  /\ ContractionComputed
  /\ Len(simplex) = 3
  /\ AfterReflection # simplex
  /\ LET s1 == AfterReflection
         ct == ContractedPoint(f, options, s1, ComputeCentroid(simplex), 0)
         old == ContractedPoint(f, options, simplex,
                                ComputeCentroid(simplex), 0)
     IN  /\ ct.F >= s1[3].F
         /\ ct.X # old.X
         /\ ShrinkSimplex(s1, options.Delta) # s1

\* an iteration is about to install a contracted point computed from the
\* reflected point that has just replaced the worst vertex
C22_WitnessContracted ==
  /\ ContractionComputed
  /\ AfterReflection # simplex
  /\ LET s1 == AfterReflection
         ct == ContractedPoint(f, options, s1, ComputeCentroid(simplex), 0)
     IN  ct.F < s1[Len(s1)].F

\* an iteration is about to transform a simplex of at least two vertices
\* without NaN coordinates
ShrinkPossible ==
  /\ AtIteration
  /\ ~HasNaN(x0)
  /\ Len(simplex) >= 2
  /\ ~GapBelowTolerance(simplex, options.Tolerance)

\* the simplices the iteration shrinks, one for each choice of objective
\* values that leads to the shrink: the simplex as it is, or with the
\* reflected point in place of the worst vertex
ShrinkOperands ==
  LET last == Len(simplex)
      c == ComputeCentroid(simplex)
      S1(ch) ==
        LET r == ReflectedPoint(f, options, simplex, ch.r)
        IN  IF FLt(r.F, simplex[last].F)
              THEN [simplex EXCEPT ![last] = r] ELSE simplex
      Shrinks(ch) ==
        /\ ~FLt(ReflectedPoint(f, options, simplex, ch.r).F,
                simplex[last - 1].F)
        /\ ~FLt(ContractedPoint(f, options, S1(ch), c, ch.s).F,
                S1(ch)[last].F)
  IN  {S1(ch) : ch \in {c1 \in Choices(f, last) : Shrinks(c1)}}

\* the square of the distance between x and y
SqDist(x, y) == SumSquares(x, y, Len(x))

\* q is b + k*(v - b) rounded to a nearest neighbour, in every coordinate
IsShrunk(q, v, b, k) ==
  \A j \in 1..Len(q) :
    2 * FAbs(q[j] * k[2] - (b[j] * k[2] + k[1] * (v[j] - b[j]))) <= k[2]

\* q is b + k*(v - b) exactly
IsShrunkExactly(q, v, b, k) ==
  \A j \in 1..Len(q) : q[j] * k[2] = b[j] * k[2] + k[1] * (v[j] - b[j])

\* C23 as stated: a shrink leaves Points[0] alone and brings every other
\* vertex strictly closer to it, unless the vertex was on it.  Violated
\* where two vertices are neighbouring float64 values: the rounded result
\* of best + Delta*(vertex - best) is the vertex itself.
C23_ShrinkStrictlyCloser ==
  ShrinkPossible =>
    \A s1 \in ShrinkOperands :
      LET t == ShrinkSimplex(s1, options.Delta)
      IN  /\ t[1] = s1[1]
          /\ \A i \in 2..Len(s1) :
               /\ IsShrunk(t[i].X, s1[i].X, s1[1].X, options.Delta)
               /\ IF s1[i].X = s1[1].X THEN t[i].X = s1[1].X
                  ELSE SqDist(t[i].X, s1[1].X) < SqDist(s1[i].X, s1[1].X)

\* C23 amended: a shrink leaves Points[0] and every cached F alone and
\* replaces every other vertex by the rounded value of
\* best + Delta*(vertex - best); the vertex ends no farther from the best
\* one than it was, and strictly closer when that value needs no rounding
\* and the vertex was not on the best one.
C23_ShrinkNoFarther ==
  ShrinkPossible =>
    \A s1 \in ShrinkOperands :
      LET t == ShrinkSimplex(s1, options.Delta)
      IN  /\ t[1] = s1[1]
          /\ \A i \in 2..Len(s1) :
               /\ t[i].F = s1[i].F
               /\ IsShrunk(t[i].X, s1[i].X, s1[1].X, options.Delta)
               /\ SqDist(t[i].X, s1[1].X) <= SqDist(s1[i].X, s1[1].X)
               /\ (IsShrunkExactly(t[i].X, s1[i].X, s1[1].X, options.Delta)
                     /\ s1[i].X # s1[1].X)
                    => SqDist(t[i].X, s1[1].X) < SqDist(s1[i].X, s1[1].X)

\* after an iteration, the next one may shrink a simplex whose worst
\* vertex, a neighbour of the best one, does not move
C23_Witness ==
  /\ ShrinkPossible
  /\ iter >= 1
  /\ \E s1 \in ShrinkOperands :
       /\ s1[2].X # s1[1].X
       /\ ShrinkSimplex(s1, options.Delta)[2].X = s1[2].X

\* after an iteration, the next one may shrink a simplex whose worst
\* vertex moves to best + Delta*(vertex - best) exactly
C23_WitnessExact ==
  /\ ShrinkPossible
  /\ iter >= 1
  /\ \E s1 \in ShrinkOperands :
       /\ s1[2].X # s1[1].X
       /\ IsShrunkExactly(ShrinkSimplex(s1, options.Delta)[2].X,
                          s1[2].X, s1[1].X, options.Delta)

\* the objective calls of one step of Run: n+1 for the initial round, none
\* for an iteration that detects convergence, n+3 for any other iteration,
\* none for a return
CallsAccounted ==
  LET n == Len(x0)
  IN  /\ (pc = "call" /\ pc' = "loop") => calls' = n + 1
      /\ (pc = "call" /\ pc' = "returned") => calls' = 0
      /\ (AtIteration /\ GapBelowTolerance(simplex, options.Tolerance))
           => calls' = calls
      /\ (AtIteration /\ ~GapBelowTolerance(simplex, options.Tolerance)
            /\ vars' # vars)
           => calls' = calls + n + 3
      /\ (pc = "loop" /\ ~AtIteration) => calls' = calls

\* C24: the initial round makes n+1 objective calls, an iteration that
\* does not converge exactly n+3 and one that converges none.  Violated
\* for n = 0 by the code bug of C17: the iteration of a run whose only
\* value is NaN makes one call, for the reflection, and panics.
C24_CallAccounting == [][CallsAccounted]_vars

\* With a guess of at least one coordinate the statement of C24 holds.
C24_CallAccountingNonEmpty == [][Len(x0) > 0 => CallsAccounted]_vars

\* how many times runIteration has been executed: the loop counter, plus
\* the iteration after which Run returned ErrorSimplexCollapse or in which
\* it panicked
Iterations ==
  iter + (IF pc = "panic" \/ (pc = "returned" /\ retErr = "collapse")
            THEN 1 ELSE 0)

\* Run has returned, or ended in a panic
Ended == pc \in {"returned", "panic"}

\* a bound on the number of steps Run has still to take: it is 0 when Run
\* has ended and otherwise one more than the iterations the loop may
\* still execute, and one more again before createSimplex
Remaining ==
  LET left == IF options.MaxIterations > iter
                THEN options.MaxIterations - iter ELSE 0
  IN  IF Ended THEN 0
      ELSE IF pc = "call" THEN left + 2
      ELSE IF LoopContinues(iter, options, done) THEN left + 1
      ELSE 1

\* Run can take a step: before createSimplex it rejects its arguments or
\* evaluates the initial simplex, and in the loop it runs an iteration,
\* which ends in a panic or with the collapse check, or returns
CanStep ==
  /\ pc = "call" =>
       \/ OptionsInvalid(options)
       \/ X0Invalid(options, x0)
       \/ EvalChoices(f, Len(x0) + 1) # {}
  /\ (pc = "loop" /\ LoopContinues(iter, options, done)) =>
       \E ch \in Choices(f, Len(simplex)) :
         LET it == RunIteration(f, options, simplex, ch)
         IN  \/ it.panic
             \/ IsCollapsed(it.simplex, options.CollapseThreshold) # {}

\* C25: whatever the objective returns, Run ends, and has executed
\* runIteration at most MaxIterations times (for rejected options, not at
\* all): the executions never exceed MaxIterations, Run can always take a
\* step until it has ended, and every step lowers the bound Remaining.
C25_EndsWithinMaxIterations ==
  /\ [](\/ Iterations = 0
        \/ retErr # "validation" /\ Iterations <= options.MaxIterations)
  /\ [](~Ended => CanStep)
  /\ [][Remaining' < Remaining]_vars

\* Run on an arbitrary objective has returned after MaxIterations = 2
\* iterations none of which converged
C25_Witness ==
  /\ f = "arb"
  /\ pc = "returned"
  /\ retErr = "nil"
  /\ ~done
  /\ options.MaxIterations = 2
  /\ Iterations = options.MaxIterations
  /\ calls = (Len(x0) + 1) + 2 * (Len(x0) + 3)

\* C26: for a deterministic objective the Point a successful Run returns
\* is not worse than the initial guess: f(result.X) <= f(x0), with or
\* without Constraints.
C26_NotWorseThanGuess ==
  (Deterministic /\ ~HasNaN(x0) /\ pc = "returned" /\ retErr = "nil")
    => Objective(f, retPoint.X, 0) <= Objective(f, x0, 0)

\* Without Constraints the statement of C26 holds.
C26_NotWorseThanGuessUnconstrained ==
  (Deterministic /\ ~Constrained /\ ~HasNaN(x0)
     /\ pc = "returned" /\ retErr = "nil")
    => Objective(f, retPoint.X, 0) <= Objective(f, x0, 0)

\* the accepted guess sits on the upper bound in every dimension
OnUpperBound ==
  /\ Constrained
  /\ Len(options.Constraints) = Len(x0)
  /\ \A j \in 1..Len(x0) : x0[j] = options.Constraints[j].Max

\* coordinate j of initial vertex j+1 is Max[j] when x0[j] + 1 > Max[j]
StepHeldAtMax ==
  \A j \in 1..Len(x0) :
    (Constrained /\ FLt(options.Constraints[j].Max, FAdd(x0[j], Unit)))
      => InitialVertices[j + 1].X[j] = options.Constraints[j].Max

\* a run from the upper bound with CollapseThreshold = 0 builds n+1 vertices
\* equal to x0, makes n+1 calls, moves no vertex and returns x0 as converged
ReturnsGuessAtOnce ==
  /\ \A i \in 1..Len(InitialVertices) : InitialVertices[i].X = x0
  /\ pc \in {"call", "loop", "returned"}
  /\ pc = "loop" =>
       /\ calls = Len(x0) + 1
       /\ done \/ iter = 0
       /\ \A i \in 1..Len(simplex) : simplex[i].X = x0
  /\ pc = "returned" =>
       /\ Converged
       /\ calls = Len(x0) + 1
       /\ retPoint.X = x0

C27_WitnessHeld ==
  /\ pc = "loop"
  /\ Constrained
  /\ Len(x0) = 1
  /\ x0[1] < options.Constraints[1].Max
  /\ x0[1] + Unit > options.Constraints[1].Max
  /\ InitialVertices[2].X[1] = options.Constraints[1].Max
  /\ \E k \in 1..2 : simplex[k].X = <<options.Constraints[1].Max>>

\* an iteration of a run on a deterministic objective is about to replace
\* the worst vertex by the expanded, the reflected or the contracted point:
\* it does not shrink
ReplacementComputed ==
  \/ ExpansionComputed
  \/ /\ ContractionComputed
     /\ LET s1 == AfterReflection
            ct == ContractedPoint(f, options, s1, ComputeCentroid(simplex), 0)
        IN  ct.F < s1[Len(s1)].F

\* the simplex the next iteration leaves, for a deterministic objective
NextSimplex ==
  RunIteration(f, options, simplex,
               CHOOSE c \in Choices(f, Len(simplex)) : TRUE).simplex

\* the coordinates of the vertices of s before the worst one are found in
\* t at different places, the one at the first place possibly clamped
KeptIn(s, t) ==
  \E pi \in [1..(Len(s) - 1) -> 1..Len(t)] :
    /\ \A i, k \in 1..(Len(s) - 1) : i # k => pi[i] # pi[k]
    /\ \A i \in 1..(Len(s) - 1) :
         \/ t[pi[i]].X = s[i].X
         \/ /\ pi[i] = 1
            /\ Constrained
            /\ t[1].X = Clamp(s[i].X, options.Constraints)

\* C28: an iteration that does not shrink changes the coordinates of the
\* worst vertex only: the transform leaves the other n vertices as they
\* are, and after the sort their coordinates are the same multiset, apart
\* from the clamp of the new best vertex.
C28_OnlyWorstChanges ==
  [][ReplacementComputed =>
       LET last == Len(simplex)
           ch == CHOOSE c \in Choices(f, last) : TRUE
           t == Transform(f, options, simplex, ch)
       IN  /\ Len(t) = last
           /\ \A i \in 1..(last - 1) : t[i] = simplex[i]
           /\ Len(simplex') = last
           /\ KeptIn(simplex, simplex')]_vars

\* an iteration is about to replace the worst of three different vertices
\* by a point that sorts between the two it keeps
C28_Witness ==
  /\ ReplacementComputed
  /\ Len(simplex) = 3
  /\ simplex[1].X # simplex[2].X
  /\ simplex[2].X # simplex[3].X
  /\ simplex[1].X # simplex[3].X
  /\ NextSimplex[1].X = simplex[1].X
  /\ NextSimplex[3].X = simplex[2].X
  /\ NextSimplex[2].X # simplex[3].X

\* Run has got past the validation: the vertices and pointBuf exist
Allocated == pc \in {"loop", "returned", "panic"} /\ retErr # "validation"

\* C29: Run never modifies its inputs: on every outcome the array of the
\* caller's x0 and the array of options.Constraints hold the values they
\* were passed with, and no vertex is stored in either of them: the
\* vertices are copies of x0.
C29_InputsUnmodified ==
  /\ heap[X0Array] = x0
  /\ heap[ConstraintsArray] = options.Constraints
  /\ \A i \in 1..Len(points) :
       points[i].X.a \notin {X0Array, ConstraintsArray}

\* Run has returned, with a nil error, a Point away from a guess of two
\* coordinates that is no longer a vertex: the vertex that was the copy of
\* x0 has been overwritten, inside a box
C29_Witness ==
  /\ pc = "returned"
  /\ retErr = "nil"
  /\ Constrained
  /\ Len(x0) = 2
  /\ iter = 2
  /\ \A i \in 1..Len(simplex) : simplex[i].X # x0
  /\ \A i \in 1..Len(points) : Contents(heap, points[i].X) # x0
  /\ heap[X0Array] = x0

\* the array pointBuf: the last one
PointBufArray == Len(heap)

\* two slices have a cell in common
Overlap(s1, s2) ==
  /\ s1.a = s2.a
  /\ \E j \in 1..s1.n : s1.lo + j - s2.lo \in 1..s2.n

ScratchSlices ==
  LET n == Len(x0)
  IN  <<ReflectedSlice(PointBufArray, n), ExpandedSlice(PointBufArray, n),
        ContractedSlice(PointBufArray, n), CentroidSlice(PointBufArray, n)>>

\* what pointBuf may hold on entry, whatever wrote it
BufferContents ==
  LET m == 4 * Len(x0)
  IN  {heap[PointBufArray], [j \in 1..m |-> NaN], [j \in 1..m |-> j * Unit]}

\* C30: the scratch buffers do not influence the result.  The stored
\* simplex is, after every step, the simplex of the iteration that makes a
\* new centroid and new candidate points each time (RunIteration); no
\* scratch slice has a cell in common with a vertex or with another
\* scratch slice; and the simplex an iteration leaves is the same whatever
\* pointBuf holds on entry.
C30_ScratchDoesNotInfluence ==
  Allocated =>
    /\ Deref(heap, points) = simplex
    /\ \A k \in 1..4 :
         /\ \A i \in 1..Len(points) : ~Overlap(ScratchSlices[k], points[i].X)
         /\ \A m \in 1..4 :
              k # m => ~Overlap(ScratchSlices[k], ScratchSlices[m])
    /\ \A i, k \in 1..Len(points) :
         i # k => ~Overlap(points[i].X, points[k].X)
    /\ AtIteration =>
         LET ch == CHOOSE c \in Choices(f, Len(simplex)) : TRUE
             fresh == RunIteration(f, options, simplex, ch)
         IN  \A buf \in BufferContents :
               LET r == HeapRunIteration(f, options,
                          [heap EXCEPT ![PointBufArray] = buf], points, ch)
               IN  /\ Deref(r.heap, r.points) = fresh.simplex
                   /\ r.done = fresh.done
                   /\ r.panic = fresh.panic

\* the second iteration of a run on two coordinates is about to transform
\* the simplex, and pointBuf still holds coordinates of the first
C30_Witness ==
  /\ AtIteration
  /\ iter = 1
  /\ Len(x0) = 2
  /\ ~GapBelowTolerance(simplex, options.Tolerance)
  /\ \E j \in 1..Len(x0) : heap[PointBufArray][j] # 0
  /\ \E j \in 1..Len(x0) : heap[PointBufArray][3 * Len(x0) + j] # 0
  /\ Deref(heap, points) = simplex

====
